---- MODULE Spec2Model ----
(***************************************************************************)
(* Model of hybrid_ai_voting_app/main.py (Aware Citizen).                  *)
(*                                                                         *)
(* Strings are sequences of one-character strings, so that replace(),      *)
(* lower(), the substring test and the regular expression of the source    *)
(* are computed character by character.                                    *)
(*                                                                         *)
(* Specifications:                                                         *)
(*   SpecStart   module initialisation, lines 14-16                        *)
(*   SpecUrl     URL construction of scrape_party_info, lines 32-38        *)
(*   SpecScrape  anchor filter of scrape_party_info, lines 43-48           *)
(*   SpecScore   score extraction of evaluate_parties, lines 75-80         *)
(*   Spec        the Analyze action of main(), lines 107-136, entered      *)
(*               with a bound client                                       *)
(***************************************************************************)
EXTENDS Integers, Sequences, FiniteSets, TLC

VARIABLES pc, secrets, environ, OPENAI_API_KEY, error,
          country, url, page, party_names, content, score,
          parties, party_analysis, party_scores, requests, ui, http

vars == <<pc, secrets, environ, OPENAI_API_KEY, error,
          country, url, page, party_names, content, score,
          parties, party_analysis, party_scores, requests, ui, http>>

\* Python's None
None == "None"

\* a name that is not bound (yet)
Unbound == "Unbound"

\* party_scores[party] = None, line 80
NoneScore == -1

\* the line feed character
LF == "LF"

(***************************************************************************)
(* Bounds                                                                  *)
(***************************************************************************)
NumKeys == 5
MaxCountryLen == 3
MaxAnchors == 6
MaxPieces == 4

(***************************************************************************)
(* String helpers                                                          *)
(***************************************************************************)
RECURSIVE Concat(_)
Concat(ss) == IF ss = <<>> THEN <<>> ELSE Head(ss) \o Concat(Tail(ss))

\* str.lower() on the characters the model uses
lower_char(c) ==
    CASE c = "A" -> "a" [] c = "B" -> "b" [] c = "C" -> "c" [] c = "E" -> "e"
      [] c = "O" -> "o" [] c = "P" -> "p" [] c = "R" -> "r" [] c = "S" -> "s"
      [] c = "T" -> "t" [] c = "Y" -> "y" [] c = "U" -> "u" [] c = "K" -> "k"
      [] OTHER -> c

lower(s) == [i \in 1..Len(s) |-> lower_char(s[i])]

\* the Python test  sub in s
contains(sub, s) ==
    \E i \in 1..(Len(s) - Len(sub) + 1) : SubSeq(s, i, i + Len(sub) - 1) = sub

\* all sequences over S of length at most n
SeqsUpTo(S, n) == UNION {[1..k -> S] : k \in 0..n}

(***************************************************************************)
(* Module initialisation, lines 14-16                                      *)
(***************************************************************************)
Keys == 1..NumKeys

\* st.secrets: no secrets file, a file without the key, or the key
NoFile == -2
NoKey == 0
SecretStores == {NoFile, NoKey} \cup Keys

\* os.environ: OPENAI_API_KEY unset (getenv gives None, here NoKey) or set
Environs == {NoKey} \cup Keys

\* OPENAI_API_KEY before line 14 has bound it
UnboundKey == -1

\* the variables of the other specifications, not yet bound at start
NoRequestState ==
    /\ country = Unbound /\ url = Unbound /\ page = Unbound
    /\ party_names = Unbound /\ content = Unbound /\ score = NoneScore
    /\ parties = Unbound /\ party_analysis = Unbound
    /\ party_scores = Unbound /\ requests = <<>> /\ ui = <<>>
    /\ http = Unbound

NoStartState ==
    /\ secrets = NoKey /\ environ = NoKey
    /\ OPENAI_API_KEY = UnboundKey /\ error = None

InitStart ==
    /\ pc = "line14"
    /\ secrets \in SecretStores
    /\ environ \in Environs
    /\ OPENAI_API_KEY = UnboundKey
    /\ error = None
    /\ NoRequestState

\* line 14: OPENAI_API_KEY = st.secrets["OPENAI_API_KEY"]
ReadSecret ==
    /\ pc = "line14"
    /\ \/ /\ secrets \in Keys
          /\ OPENAI_API_KEY' = secrets
          /\ pc' = "line15"
          /\ UNCHANGED error
       \/ /\ secrets \notin Keys
          /\ error' = IF secrets = NoFile THEN "FileNotFoundError"
                                             ELSE "KeyError"
          /\ pc' = "crashed"
          /\ UNCHANGED OPENAI_API_KEY
    /\ UNCHANGED <<secrets, environ, country, url, page, party_names, content,
                   score, parties, party_analysis, party_scores, requests,
                   ui, http>>

\* the names the module has imported when line 15 runs (lines 3-10)
ImportedNames == {"requests", "BeautifulSoup", "pd", "json", "st", "plt",
                  "re", "OpenAI"}

\* line 15: OPENAI_API_KEY = os.getenv("OPENAI_API_KEY")
\* The name os is looked up before getenv is called.
GetEnv ==
    /\ pc = "line15"
    /\ IF "os" \in ImportedNames
         THEN /\ OPENAI_API_KEY' = environ
              /\ pc' = "line16"
              /\ UNCHANGED error
         ELSE /\ error' = "NameError"
              /\ pc' = "crashed"
              /\ UNCHANGED OPENAI_API_KEY
    /\ UNCHANGED <<secrets, environ, country, url, page, party_names, content,
                   score, parties, party_analysis, party_scores, requests,
                   ui, http>>

NextStart == ReadSecret \/ GetEnv

SpecStart == InitStart /\ [][NextStart]_vars

\* the interpreter always executes the next statement
FairSpecStart == SpecStart /\ WF_vars(NextStart)

(***************************************************************************)
(* scrape_party_info: URL construction, lines 32-38                        *)
(***************************************************************************)
UnitedStates == <<"U","n","i","t","e","d"," ","S","t","a","t","e","s">>
UnitedKingdom == <<"U","n","i","t","e","d"," ","K","i","n","g","d","o","m">>
Philippines == <<"P","h","i","l","i","p","p","i","n","e","s">>
the_United_States ==
    <<"t","h","e","_","U","n","i","t","e","d","_","S","t","a","t","e","s">>
the_United_Kingdom ==
    <<"t","h","e","_","U","n","i","t","e","d","_","K","i","n","g","d","o","m">>
the_Philippines == <<"t","h","e","_","P","h","i","l","i","p","p","i","n","e","s">>

\* lines 32-36
country_map ==
    [c \in {UnitedStates, UnitedKingdom, Philippines} |->
        CASE c = UnitedStates -> the_United_States
          [] c = UnitedKingdom -> the_United_Kingdom
          [] c = Philippines -> the_Philippines]

\* dict.get(key, default)
dict_get(d, k, default) == IF k \in DOMAIN d THEN d[k] ELSE default

\* str.replace(old, new) for one-character old and new
RECURSIVE replace(_, _, _)
replace(s, old, new) ==
    IF s = <<>> THEN <<>>
    ELSE <<IF Head(s) = old THEN new ELSE Head(s)>> \o replace(Tail(s), old, new)

\* a replace that stops after the first occurrence
RECURSIVE replace_first(_, _, _)
replace_first(s, old, new) ==
    IF s = <<>> THEN <<>>
    ELSE IF Head(s) = old THEN <<new>> \o Tail(s)
    ELSE <<Head(s)>> \o replace_first(Tail(s), old, new)

UrlPrefix ==
    <<"h","t","t","p","s",":","/","/","e","n",".","w","i","k","i","p","e","d",
      "i","a",".","o","r","g","/","w","i","k","i","/","L","i","s","t","_","o",
      "f","_","p","o","l","i","t","i","c","a","l","_","p","a","r","t","i","e",
      "s","_","i","n","_">>

\* the URL with only the first space of the name replaced
build_url_first(c) ==
    UrlPrefix \o replace_first(dict_get(country_map, c, c), " ", "_")

\* lines 37-38
build_url(c) ==
    LET wiki_country == dict_get(country_map, c, c)
    IN  UrlPrefix \o replace(wiki_country, " ", "_")

SouthKorea == <<"S","o","u","t","h"," ","K","o","r","e","a">>
Canada == <<"C","a","n","a","d","a">>

\* the names typed into the text input
CountryChars == {"a", "B", " ", "_"}
Countries ==
    {UnitedStates, UnitedKingdom, Philippines, SouthKorea, Canada,
     lower(UnitedStates), UnitedStates \o <<" ">>, <<" ">> \o Philippines,
     <<"N","e","w"," ">> \o UnitedKingdom,
     <<"T","h","e"," ">> \o UnitedStates \o <<" ","o","f"," ","A">>}
    \cup SeqsUpTo(CountryChars, MaxCountryLen)

InitUrl ==
    /\ pc = "line37"
    /\ country \in Countries
    /\ url = Unbound /\ page = Unbound
    /\ party_names = Unbound /\ content = Unbound /\ score = NoneScore
    /\ parties = Unbound /\ party_analysis = Unbound
    /\ party_scores = Unbound /\ requests = <<>> /\ ui = <<>>
    /\ http = Unbound
    /\ NoStartState

BuildUrl ==
    /\ pc = "line37"
    /\ url' = build_url(country)
    /\ pc' = "line40"
    /\ UNCHANGED <<secrets, environ, OPENAI_API_KEY, error, country, page,
                   party_names, content, score, parties, party_analysis,
                   party_scores, requests, ui, http>>

NextUrl == BuildUrl

SpecUrl == InitUrl /\ [][NextUrl]_vars

\* the name with every space replaced by an underscore, position by position
Underscored(c) == [i \in 1..Len(c) |-> IF c[i] = " " THEN "_" ELSE c[i]]

\* C4: the requested URL is the fixed prefix followed by the documented
\* replacement for the three exceptional names, and otherwise by the name
\* with every space replaced by an underscore and nothing else changed.
C4_UrlConstruction ==
    pc = "line40" =>
        /\ SubSeq(url, 1, Len(UrlPrefix)) = UrlPrefix
        /\ SubSeq(url, Len(UrlPrefix) + 1, Len(url)) =
              IF country = UnitedStates THEN the_United_States
              ELSE IF country = UnitedKingdom THEN the_United_Kingdom
              ELSE IF country = Philippines THEN the_Philippines
              ELSE Underscored(country)

\* an exceptional name and a name with two spaces have both been converted
C4_Witness ==
    /\ pc = "line40"
    /\ \/ country = UnitedKingdom
       \/ /\ Cardinality({i \in 1..Len(country) : country[i] = " "}) >= 2
          /\ country \notin DOMAIN country_map

(***************************************************************************)
(* scrape_party_info: anchor filter, lines 41-48                           *)
(***************************************************************************)
APartyTitle == <<"A"," ","P","a","r","t","y">>
PartyBTitle == <<"P","A","R","T","Y"," ","b">>
PartTitle == <<"P","a","r","t">>
party == <<"p","a","r","t","y">>

\* An anchor element of the parsed document: sel is the element's position
\* in the tree ("ul_li": inside an li inside a ul, "ol_li": inside an li
\* that has no ul ancestor, "p": outside any list item), has_title whether
\* the title attribute is present, title its value.
Anchor(sel, has_title, title) ==
    [sel |-> sel, has_title |-> has_title, title |-> title]

AnchorKinds ==
    {Anchor("ul_li", TRUE, APartyTitle), Anchor("ul_li", TRUE, PartyBTitle),
     Anchor("ul_li", TRUE, PartTitle), Anchor("ul_li", FALSE, <<>>),
     Anchor("ol_li", TRUE, APartyTitle), Anchor("p", TRUE, PartyBTitle)}

\* a document is the sequence of its anchors in document order
Pages == SeqsUpTo(AnchorKinds, MaxAnchors)

\* soup.select('ul li a'), line 44
select_ul_li_a(doc) == SelectSeq(doc, LAMBDA a : a.sel = "ul_li")

\* li.get('title'): None when the attribute is absent; None and "" are falsy
truthy_title(a) == a.has_title /\ a.title # <<>>

\* the loop of lines 43-46
RECURSIVE filter_titles(_)
filter_titles(as) ==
    IF as = <<>> THEN <<>>
    ELSE IF truthy_title(Head(as)) /\ contains(party, lower(Head(as).title))
         THEN <<Head(as).title>> \o filter_titles(Tail(as))
         ELSE filter_titles(Tail(as))

\* s[:n]
slice_to(s, n) == SubSeq(s, 1, IF Len(s) < n THEN Len(s) ELSE n)

\* the body without the slice of line 48
parse_party_names_uncapped(doc) == filter_titles(select_ul_li_a(doc))

\* lines 43-48
parse_party_names(doc) == slice_to(filter_titles(select_ul_li_a(doc)), 5)

InitScrape ==
    /\ pc = "line41"
    /\ page \in Pages
    /\ party_names = Unbound
    /\ country = Unbound /\ url = Unbound
    /\ content = Unbound /\ score = NoneScore
    /\ parties = Unbound /\ party_analysis = Unbound
    /\ party_scores = Unbound /\ requests = <<>> /\ ui = <<>>
    /\ http = Unbound
    /\ NoStartState

ParsePage ==
    /\ pc = "line41"
    /\ party_names' = parse_party_names(page)
    /\ pc' = "returned"
    /\ UNCHANGED <<secrets, environ, OPENAI_API_KEY, error, country, url, page,
                   content, score, parties, party_analysis, party_scores,
                   requests, ui, http>>

NextScrape == ParsePage

SpecScrape == InitScrape /\ [][NextScrape]_vars

\* the title is present and contains "party" in any letter case
HasPartyTitle(a) ==
    /\ a.has_title
    /\ \E i \in 1..Len(a.title) - 4 :
          \A k \in 0..4 : lower_char(a.title[i + k]) = party[k + 1]

\* positions of the qualifying anchors among the anchors whose position in
\* the tree is in sels
Qualifying(doc, sels) ==
    {i \in 1..Len(doc) : doc[i].sel \in sels /\ HasPartyTitle(doc[i])}

\* the k-th smallest element of a set of positions
Kth(Q, k) == CHOOSE i \in Q : Cardinality({j \in Q : j <= i}) = k

\* names is the first min(5, n) titles, in document order, of the n
\* qualifying anchors
FirstFiveOf(names, doc, sels) ==
    LET Q == Qualifying(doc, sels)
        n == Cardinality(Q)
    IN  /\ Len(names) = (IF n < 5 THEN n ELSE 5)
        /\ \A k \in 1..Len(names) : names[k] = doc[Kth(Q, k)].title

\* C1 as stated: the result is the first min(5, n) titles, in document
\* order, of the n anchors inside list items (of any list) whose title is
\* present and contains "party" case-insensitively.
C1_AnyListItem ==
    pc = "returned" => FirstFiveOf(party_names, page, {"ul_li", "ol_li"})

\* C1 amended: the result is the first min(5, n) titles, in document order,
\* of the n anchors matched by 'ul li a' (inside a list item of an
\* unordered list) whose title is present and contains "party"
\* case-insensitively; it never has more than 5 entries and is empty when
\* n = 0.
C1_FirstFiveInUnorderedList ==
    pc = "returned" =>
        /\ FirstFiveOf(party_names, page, {"ul_li"})
        /\ Len(party_names) <= 5
        /\ (Qualifying(page, {"ul_li"}) = {} => party_names = <<>>)

\* six anchors qualify, in mixed order with anchors that do not, and five
\* titles were returned
C1_Witness ==
    /\ pc = "returned"
    /\ Cardinality(Qualifying(page, {"ul_li"})) = 6
    /\ Len(party_names) = 5
    /\ party_names[1] # party_names[2]

(***************************************************************************)
(* evaluate_parties: score extraction, lines 72-80                         *)
(***************************************************************************)
Digits == {"0", "1", "2", "4", "5", "7"}

\* int() of one decimal digit
digit_value(c) ==
    CASE c = "0" -> 0 [] c = "1" -> 1 [] c = "2" -> 2 [] c = "4" -> 4
      [] c = "5" -> 5 [] c = "7" -> 7

\* int() of a digit string
RECURSIVE int(_)
int(s) ==
    IF s = <<>> THEN 0
    ELSE 10 * int(SubSeq(s, 1, Len(s) - 1)) + digit_value(s[Len(s)])

\* the literal of the pattern
score_literal == <<"s","c","o","r","e">>

\* (\d{1,2}) at position j: greedy, two digits when there are two
digits_group(text, j) ==
    IF j + 1 <= Len(text) /\ text[j + 1] \in Digits
    THEN <<text[j], text[j + 1]>>
    ELSE <<text[j]>>

\* .*?(\d{1,2}) with a dot that also matches the line feed (re.DOTALL)
RECURSIVE lazy_dot_digits_dotall(_, _)
lazy_dot_digits_dotall(text, j) ==
    IF j > Len(text) THEN <<>>
    ELSE IF text[j] \in Digits THEN digits_group(text, j)
    ELSE lazy_dot_digits_dotall(text, j + 1)

\* .*?(\d{1,2}) with a dot that does not pass a minus sign
RECURSIVE lazy_dot_digits_nominus(_, _)
lazy_dot_digits_nominus(text, j) ==
    IF j > Len(text) THEN <<>>
    ELSE IF text[j] \in Digits THEN digits_group(text, j)
    ELSE IF text[j] \in {LF, "-"} THEN <<>>
    ELSE lazy_dot_digits_nominus(text, j + 1)

\* .*?(\d{1,2}) from position j, line 75: the lazy dot consumes one more
\* character only when the group does not match here, and the dot does
\* not match the line feed.  <<>> when there is no match.
RECURSIVE lazy_dot_digits(_, _)
lazy_dot_digits(text, j) ==
    IF j > Len(text) THEN <<>>
    ELSE IF text[j] \in Digits THEN digits_group(text, j)
    ELSE IF text[j] = LF THEN <<>>
    ELSE lazy_dot_digits(text, j + 1)

\* the pattern anchored at position i, with re.IGNORECASE
match_at(text, i) ==
    IF i + 4 <= Len(text) /\ lower(SubSeq(text, i, i + 4)) = score_literal
    THEN lazy_dot_digits(text, i + 5)
    ELSE <<>>

\* re.search: the leftmost position where the pattern matches; the value
\* is group(1), <<>> when score_match is None
RECURSIVE search_from(_, _)
search_from(text, i) ==
    IF i > Len(text) THEN <<>>
    ELSE IF match_at(text, i) # <<>> THEN match_at(text, i)
    ELSE search_from(text, i + 1)

re_search_score(text) == search_from(text, 1)

\* lines 75-80 without the upper clamp
extract_score_unclamped(text) ==
    LET group == re_search_score(text)
    IN  IF group # <<>> THEN (IF int(group) > 0 THEN int(group) ELSE 0)
        ELSE NoneScore

\* lines 75-80
extract_score(text) ==
    LET group == re_search_score(text)
    IN  IF group # <<>>
        THEN LET n == int(group)
                 lo == IF n > 0 THEN n ELSE 0
             IN  IF lo < 20 THEN lo ELSE 20
        ELSE NoneScore

\* the fragments the replies of the service are made of
Pieces ==
    {score_literal, <<"S","c","O","R","E">>, <<"s","c">>, <<":"," ">>,
     <<"-">>, <<LF>>, <<"2">>, <<"5">>, <<"7">>}

Texts == {Concat(ps) : ps \in SeqsUpTo(Pieces, MaxPieces)}

InitScore ==
    /\ pc = "line64"
    /\ content = <<>>
    /\ score = NoneScore
    /\ country = Unbound /\ url = Unbound /\ page = Unbound
    /\ party_names = Unbound
    /\ parties = Unbound /\ party_analysis = Unbound
    /\ party_scores = Unbound /\ requests = <<>> /\ ui = <<>>
    /\ http = Unbound
    /\ NoStartState

\* lines 64-80 for one party: the service replies and the score is mined
ScoreReply ==
    /\ pc = "line64"
    /\ \E text \in Texts :
          /\ content' = text
          /\ score' = extract_score(text)
    /\ pc' = "scored"
    /\ UNCHANGED <<secrets, environ, OPENAI_API_KEY, error, country, url, page,
                   party_names, parties, party_analysis, party_scores,
                   requests, ui, http>>

NextScore == ScoreReply

SpecScore == InitScore /\ [][NextScore]_vars

\* positions where "score" occurs in any letter case
Occurrences(t) ==
    {i \in 1..Len(t) - 4 :
        \A k \in 0..4 : lower_char(t[i + k]) = score_literal[k + 1]}

\* positions of the digits after the occurrence at i
DigitsAfter(t, i) == {j \in (i + 5)..Len(t) : t[j] \in Digits}

Min(S) == CHOOSE x \in S : \A y \in S : x <= y

\* the number written by the first one or two digits of the run at j
RunValue(t, j) ==
    IF j < Len(t) /\ t[j + 1] \in Digits
    THEN 10 * digit_value(t[j]) + digit_value(t[j + 1])
    ELSE digit_value(t[j])

Clamped(n) == IF n > 20 THEN 20 ELSE IF n < 0 THEN 0 ELSE n

\* there is a line break between the occurrence at i and position j
LineBreakBetween(t, i, j) == \E k \in (i + 5)..(j - 1) : t[k] = LF

\* the score mined from t when F is the set of occurrences that count
ScoreFrom(t, F) ==
    IF F = {} THEN NoneScore
    ELSE Clamped(RunValue(t, Min(DigitsAfter(t, Min(F)))))

Score27 == <<"s","c","o","r","e",":"," ","2","7">>
ScoreMinus5 == <<"s","c","o","r","e",":"," ","-","5">>

\* C2: every recorded score is absent or an integer in [0, 20]; a raw
\* matched number above 20 ("score: 27") is recorded as 20.
C2_ScoreRange ==
    pc = "scored" =>
        /\ score = NoneScore \/ score \in 0..20
        /\ content = Score27 => score = 20
        /\ \A i \in Occurrences(content) :
              \A j \in DigitsAfter(content, i) :
                 (~LineBreakBetween(content, i, j) /\ RunValue(content, j) > 20
                  /\ i = Min(Occurrences(content))
                  /\ j = Min(DigitsAfter(content, i)))
                 => score = 20

\* the reply "score: 27" was recorded as 20
C2_Witness == pc = "scored" /\ content = Score27 /\ score = 20

\* the only digits after the first "score" form one run, directly preceded
\* by a minus sign
OnlyNumberIsNegative(t) ==
    /\ Occurrences(t) # {}
    /\ LET D == DigitsAfter(t, Min(Occurrences(t)))
       IN  /\ D # {}
           /\ \A j \in D : j = Min(D) \/ j - 1 \in D
           /\ t[Min(D) - 1] = "-"

\* C3 as stated: a reply whose only number after "score" is written with a
\* minus sign ("score: -5") is not matched; the score is absent.
C3_NegativeIsAbsent ==
    (pc = "scored" /\ OnlyNumberIsNegative(content)) => score = NoneScore

\* C3 amended: a reply whose only number after "score" is written with a
\* minus sign on the same line ("score: -5") is matched: the minus sign is
\* skipped like any other character and the score is the number formed by
\* the first one or two digits, without the sign, clamped at 20 (5 for
\* "score: -5"); it is never absent.
C3_NegativeSignSkipped ==
    (pc = "scored" /\ OnlyNumberIsNegative(content)) =>
        LET i == Min(Occurrences(content))
            j == Min(DigitsAfter(content, i))
        IN  /\ content = ScoreMinus5 => score = 5
            /\ ~LineBreakBetween(content, i, j) =>
                  /\ score # NoneScore
                  /\ score = Clamped(RunValue(content, j))

\* the reply "score: -5" was recorded as 5
C3_Witness == pc = "scored" /\ content = ScoreMinus5 /\ score = 5

\* C8 as stated: the score comes from the first occurrence of "score" that
\* is followed anywhere later by a digit, whatever lies between (line
\* breaks included); it is the first one or two digits after that
\* occurrence, clamped into [0, 20], and absent only when no occurrence is
\* followed by a digit.
C8_AnyCharactersBetween ==
    pc = "scored" =>
        score = ScoreFrom(content,
                    {i \in Occurrences(content) : DigitsAfter(content, i) # {}})

\* C8 amended: the score comes from the first occurrence of "score" whose
\* next digit stands on the same line (any characters but a line break
\* between them); it is the first one or two digits after that occurrence,
\* clamped into [0, 20], and absent exactly when no occurrence of "score"
\* is followed by a digit before the next line break.
C8_SameLineOnly ==
    pc = "scored" =>
        score = ScoreFrom(content,
                    {i \in Occurrences(content) :
                        /\ DigitsAfter(content, i) # {}
                        /\ ~LineBreakBetween(content, i,
                                             Min(DigitsAfter(content, i)))})

\* a first occurrence cut off from its digit by a line break was passed
\* over and the second occurrence gave the score
C8_Witness ==
    /\ pc = "scored"
    /\ content = score_literal \o <<LF>> \o score_literal \o <<"7">>
    /\ score = 7

(***************************************************************************)
(* main(): the Analyze action, lines 107-136                               *)
(***************************************************************************)
\* a Python dict: keys in insertion order, val the mapping
EmptyDict == [keys |-> <<>>, val |-> <<>>]

\* a mapping that keeps one entry per assignment
dict_set_multi(d, k, v) ==
    [keys |-> Append(d.keys, k),
     val |-> IF k \in DOMAIN d.val THEN [d.val EXCEPT ![k] = v]
             ELSE d.val @@ (k :> v)]

\* d[k] = v
dict_set(d, k, v) ==
    IF k \in DOMAIN d.val
    THEN [d EXCEPT !.val[k] = v]
    ELSE [keys |-> Append(d.keys, k), val |-> d.val @@ (k :> v)]

\* d.items()
dict_items(d) == [i \in 1..Len(d.keys) |-> <<d.keys[i], d.val[d.keys[i]]>>]

Score14 == <<"s","c","o","r","e",":"," ","1","4">>
NoRating == <<"n","/","a">>

\* the replies of the text-generation service
MainReplies == {Score14, Score27, NoRating}

\* the names typed into the text input
MainCountries == {Canada, UnitedStates}

\* the statuses of the response to requests.get
HttpStatuses == {"200", "404"}

Init ==
    /\ pc = "idle"
    /\ country = Canada
    /\ url = Unbound /\ http = Unbound
    /\ page = Unbound /\ party_names = Unbound
    /\ content = Unbound /\ score = NoneScore
    /\ parties = <<>>
    /\ party_analysis = EmptyDict /\ party_scores = EmptyDict
    /\ requests = <<>> /\ ui = <<>>
    /\ NoStartState

\* lines 100 and 107: the user sets the text input and presses Analyze;
\* every press runs the action from scratch
ClickAnalyze ==
    /\ pc \in {"idle", "done", "raised"}
    /\ \E c \in MainCountries : country' = c
    /\ pc' = "line109"
    /\ url' = Unbound /\ http' = Unbound
    /\ parties' = <<>>
    /\ party_analysis' = EmptyDict /\ party_scores' = EmptyDict
    /\ requests' = <<>> /\ ui' = <<>>
    /\ error' = None
    /\ UNCHANGED <<secrets, environ, OPENAI_API_KEY, page, party_names,
                   content, score>>

\* requests.get raises (no connection): the exception leaves main
FetchRaises ==
    /\ pc = "line109"
    /\ url' = build_url(country)
    /\ http' = "ConnectionError"
    /\ error' = "ConnectionError"
    /\ pc' = "raised"
    /\ UNCHANGED <<secrets, environ, OPENAI_API_KEY, country, page,
                   party_names, content, score, parties, party_analysis,
                   party_scores, requests, ui>>

\* lines 109-112: requests.get returns a response of any status, its body
\* is parsed, and the count and the list are shown; lines 52-53
FetchReturns ==
    /\ pc = "line109"
    /\ url' = build_url(country)
    /\ \E status \in HttpStatuses, doc \in Pages :
          /\ http' = status
          /\ parties' = parse_party_names(doc)
    /\ ui' = ui \o <<<<"success", Len(parties')>>, <<"write", parties'>>>>
    /\ party_analysis' = EmptyDict /\ party_scores' = EmptyDict
    /\ pc' = "line55"
    /\ UNCHANGED <<secrets, environ, OPENAI_API_KEY, error, country, page,
                   party_names, content, score, requests>>

\* the party of the next iteration of the loop of line 55
NextParty == parties[Len(requests) + 1]

\* a failure after which the analyses obtained so far are still shown
RequestRaisesPartial ==
    /\ pc = "line55"
    /\ Len(requests) < Len(parties)
    /\ requests' = Append(requests, NextParty)
    /\ error' = "APIError"
    /\ pc' = "raised"
    /\ ui' = ui \o Concat([i \in 1..Len(party_analysis.keys) |->
                 <<<<"subheader", party_analysis.keys[i]>>,
                   <<"markdown",
                     party_analysis.val[party_analysis.keys[i]]>>>>])
    /\ UNCHANGED <<secrets, environ, OPENAI_API_KEY, country, url, page,
                   party_names, content, score, parties, party_analysis,
                   party_scores, http>>

\* line 64 raises: the exception leaves evaluate_parties and main
RequestRaises ==
    /\ pc = "line55"
    /\ Len(requests) < Len(parties)
    /\ requests' = Append(requests, NextParty)
    /\ error' = "APIError"
    /\ pc' = "raised"
    /\ UNCHANGED <<secrets, environ, OPENAI_API_KEY, country, url, page,
                   party_names, content, score, parties, party_analysis,
                   party_scores, ui, http>>

\* lines 55-80, one iteration: one request, the reply stored and mined
RequestReturns ==
    /\ pc = "line55"
    /\ Len(requests) < Len(parties)
    /\ requests' = Append(requests, NextParty)
    /\ \E text \in MainReplies :
          /\ party_analysis' = dict_set(party_analysis, NextParty, text)
          /\ party_scores' =
                dict_set(party_scores, NextParty, extract_score(text))
    /\ UNCHANGED <<secrets, environ, OPENAI_API_KEY, error, country, url,
                   page, party_names, content, score, parties, ui, http, pc>>

\* lines 118-120: a heading and a body for every item of results
sections(results) ==
    Concat([i \in 1..Len(results.keys) |->
              <<<<"subheader", results.keys[i]>>,
                <<"markdown", results.val[results.keys[i]]>>>>])

\* a filter that keeps every item
valid_scores_unfiltered(scores) == dict_items(scores)

\* line 123: the items whose score is not None
valid_scores(scores) ==
    SelectSeq(dict_items(scores), LAMBDA kv : kv[2] # NoneScore)

\* lines 126-136: the bar chart, or the warning when valid_scores is empty
chart_or_warning(scores) ==
    IF valid_scores(scores) # <<>>
    THEN <<<<"pyplot", valid_scores(scores)>>>>
    ELSE <<<<"warning", "No valid scores found to visualize.">>>>

\* lines 82 and 117-136: evaluate_parties returns and the results are shown
Render ==
    /\ pc = "line55"
    /\ Len(requests) = Len(parties)
    /\ ui' = ui \o <<<<"header", "Results">>>> \o sections(party_analysis)
                \o <<<<"header", "Satisfaction Score Comparison">>>>
                \o chart_or_warning(party_scores)
    /\ pc' = "done"
    /\ UNCHANGED <<secrets, environ, OPENAI_API_KEY, error, country, url,
                   page, party_names, content, score, parties,
                   party_analysis, party_scores, requests, http>>

Next ==
    \/ ClickAnalyze
    \/ FetchRaises
    \/ FetchReturns
    \/ RequestRaises
    \/ RequestReturns
    \/ Render

Spec == Init /\ [][Next]_vars

\* the positions of the elements of a given kind in the rendered output
Rendered(kind) == {k \in 1..Len(ui) : ui[k][1] = kind}

\* the parties of the score mapping whose score is present
PresentScores ==
    {p \in DOMAIN party_scores.val : party_scores.val[p] # NoneScore}

\* the bars of the chart at position k of the output
Bars(k) == ui[k][2]

\* C5: after a completed Analyze action the chart has exactly one bar for
\* each party whose score is present and none for a party whose score is
\* absent (a reply without "score" gives an absent score); when no party
\* has a present score, also when no party was found, the warning is shown
\* and no chart; chart and warning are never shown together.
C5_ChartOrWarning ==
    /\ Rendered("pyplot") = {} \/ Rendered("warning") = {}
    /\ pc = "done" =>
          /\ \A p \in DOMAIN party_analysis.val :
                Occurrences(party_analysis.val[p]) = {}
                   => p \notin PresentScores
          /\ IF PresentScores = {}
             THEN /\ Rendered("pyplot") = {}
                  /\ Cardinality(Rendered("warning")) = 1
             ELSE /\ Rendered("warning") = {}
                  /\ Cardinality(Rendered("pyplot")) = 1
                  /\ \A k \in Rendered("pyplot") :
                        /\ \A p \in PresentScores :
                              Cardinality({b \in 1..Len(Bars(k)) :
                                              Bars(k)[b][1] = p}) = 1
                        /\ \A b \in 1..Len(Bars(k)) :
                              /\ Bars(k)[b][1] \in PresentScores
                              /\ Bars(k)[b][2] =
                                    party_scores.val[Bars(k)[b][1]]

\* two parties were evaluated, one reply had no score, and the chart shows
\* the one bar of the other party
C5_Witness ==
    /\ pc = "done"
    /\ Len(party_scores.keys) = 2
    /\ Cardinality(PresentScores) = 1
    /\ \E k \in Rendered("pyplot") : Len(Bars(k)) = 1

\* C6: when the fetch fails, by a network error or by a non-success HTTP
\* status, the failure is reported and the action makes no request to the
\* text-generation service.
C6_FetchFailureStopsAction ==
    (http \notin {Unbound, "200"}) =>
        /\ error # None
        /\ Rendered("success") = {}
        /\ requests = <<>>

\* C7: when the request for the k-th party raises, the action aborts
\* there: the requests made are exactly those for the first k parties, one
\* each, no request follows within the action, and no analysis section and
\* no chart is rendered, also not for the k-1 parties already evaluated.
C7_AbortOnFirstFailure ==
    [][(pc = "raised" /\ error = "APIError") =>
          /\ Len(requests) >= 1
          /\ requests = SubSeq(parties, 1, Len(requests))
          /\ Len(party_analysis.keys) <= Len(requests) - 1
          /\ Rendered("subheader") = {} /\ Rendered("markdown") = {}
          /\ Rendered("pyplot") = {} /\ Rendered("warning") = {}
          /\ (requests' = requests \/ pc' = "line109")]_vars

\* the request for the third party raised after two parties were evaluated
C7_Witness ==
    /\ pc = "raised" /\ error = "APIError"
    /\ Len(requests) = 3
    /\ Len(party_analysis.keys) = 2
    /\ Len(parties) = 5

\* the distinct names of a list
Names(list) == {list[i] : i \in 1..Len(list)}

\* the count displayed by "Found N political parties."
FoundCount == ui[Min(Rendered("success"))][2]

\* C9 as stated: after a completed Analyze action the number of rendered
\* sections equals the displayed "Found N" count and the number of
\* requests made, also for lists in which names repeat.
C9_SectionPerEntry ==
    pc = "done" =>
        /\ Cardinality(Rendered("subheader")) = FoundCount
        /\ Len(requests) = FoundCount

\* C9 amended: after a completed Analyze action the displayed "Found N"
\* count and the number of requests made both equal the length of the party
\* list, and one heading-plus-analysis section is rendered for each
\* distinct name of the list, showing the reply to the last request for
\* that name; the number of sections equals N exactly when no name repeats.
C9_SectionPerDistinctName ==
    pc = "done" =>
        /\ FoundCount = Len(parties)
        /\ Len(requests) = Len(parties)
        /\ Cardinality(Rendered("subheader")) = Cardinality(Names(parties))
        /\ Cardinality(Rendered("markdown")) = Cardinality(Names(parties))
        /\ \A p \in Names(parties) :
              \E k \in Rendered("subheader") :
                 /\ ui[k][2] = p
                 /\ ui[k + 1] = <<"markdown", party_analysis.val[p]>>
        /\ (Cardinality(Rendered("subheader")) = FoundCount
               <=> Cardinality(Names(parties)) = Len(parties))

\* five parties with a repeated name were found and evaluated
C9_Witness ==
    /\ pc = "done"
    /\ Len(parties) = 5
    /\ Cardinality(Names(parties)) = 2
    /\ Cardinality(Rendered("subheader")) = 2
    /\ Len(requests) = 5

\* C10: process start completes: with the key present in the secrets store
\* and in the environment, the key is read, the client is built and the
\* program reaches the idle UI state.
C10_StartCompletes ==
    (secrets \in Keys /\ environ \in Keys) => <>(pc = "idle")

====
